---- MODULE Spec2Model ----
(***************************************************************************)
(* A model of cubeviz's SliceController (cubeviz/controls/slice.py): the   *)
(* slider, the two text boxes, the layout's synced index, the viewers and  *)
(* the notifications the controller emits.                                 *)
(*                                                                         *)
(* Numbers.  A wavelength is a float with at most two decimals; the model  *)
(* holds it as its count of hundredths (12.34 is 1234), and arithmetic on  *)
(* wavelengths is exact.  A text is a sequence of one-character strings,   *)
(* so that str(), '{:.3}'.format(), int() and float() are computed, not    *)
(* assumed.  Indices are 0-based as in the code; At(a, i) reads a[i].      *)
(***************************************************************************)
EXTENDS Integers, Sequences, FiniteSets, TLC

(***************************************************************************)
(* Bounds of the model.                                                    *)
(***************************************************************************)
\* longest wavelength axis
MaxLen == 3
\* number of cube viewers of the layout
NumViewers == 2
\* number of operations in a behaviour
MaxSteps == 3

\* hundredths per unit
Scale == 10 * 10

(***************************************************************************)
(* Text and numbers                                                        *)
(***************************************************************************)
DigitChars == <<"0", "1", "2", "3", "4", "5", "6", "7", "8", "9">>

IsDigit(c) == \E k \in 1..10 : DigitChars[k] = c

DigitVal(c) == (CHOOSE k \in 1..10 : DigitChars[k] = c) - 1

AllDigits(t) == \A k \in 1..Len(t) : IsDigit(t[k])

RECURSIVE DigitsVal(_)
\* the number a sequence of digits writes (0 for the empty sequence)
DigitsVal(t) ==
    IF t = <<>> THEN 0
    ELSE 10 * DigitsVal(SubSeq(t, 1, Len(t) - 1)) + DigitVal(t[Len(t)])

RECURSIVE NatStr(_)
NatStr(n) ==
    IF n < 10 THEN <<DigitChars[n + 1]>>
    ELSE NatStr(n \div 10) \o <<DigitChars[(n % 10) + 1]>>

\* str(index) of a Python int
IntStr(n) == IF n < 0 THEN <<"-">> \o NatStr(0 - n) ELSE NatStr(n)

\* the result of a failed conversion (ValueError)
Invalid == [ok |-> FALSE, val |-> 0]

Unsigned(t) == IF t # <<>> /\ t[1] = "-" THEN Tail(t) ELSE t

Sign(t) == IF t # <<>> /\ t[1] = "-" THEN 0 - 1 ELSE 1

\* int(text): an optional sign and at least one digit, nothing else
ParseInt(t) ==
    LET body == Unsigned(t)
    IN  IF body # <<>> /\ AllDigits(body)
        THEN [ok |-> TRUE, val |-> Sign(t) * DigitsVal(body)]
        ELSE Invalid

\* float(text), in hundredths: an optional sign, digits with at most one
\* point and at least one digit.  Decimals after the second are dropped;
\* the texts of the model have at most two.
ParseFloat(t) ==
    LET body == Unsigned(t)
        dots == {k \in 1..Len(body) : body[k] = "."}
    IN  IF dots = {}
        THEN IF body # <<>> /\ AllDigits(body)
             THEN [ok |-> TRUE, val |-> Sign(t) * DigitsVal(body) * Scale]
             ELSE Invalid
        ELSE IF Cardinality(dots) > 1 THEN Invalid
        ELSE LET k  == CHOOSE d \in dots : TRUE
                 ip == SubSeq(body, 1, k - 1)
                 fp == SubSeq(body, k + 1, Len(body))
                 f2 == SubSeq(fp \o <<"0", "0">>, 1, 2)
             IN  IF AllDigits(ip) /\ AllDigits(fp) /\ Len(ip) + Len(fp) > 0
                 THEN [ok |-> TRUE,
                       val |-> Sign(t) * (DigitsVal(ip) * Scale + DigitsVal(f2))]
                 ELSE Invalid

\* the decimals of str(float): trailing zeros dropped, one digit kept
FracStr(f) ==
    IF f % 10 = 0 THEN <<DigitChars[(f \div 10) + 1]>>
    ELSE <<DigitChars[(f \div 10) + 1], DigitChars[(f % 10) + 1]>>

\* str(x) of a float x >= 0 given in hundredths: the shortest text that
\* reads back as x
FloatStr(v) == NatStr(v \div Scale) \o <<".">> \o FracStr(v % Scale)

\* '{:.3}'.format(x): x rounded to three significant digits.  Below 10 a
\* float with two decimals has at most three, so the text is str(x); from
\* 10 up it is rounded to tenths (half to even).  Python writes 99.95 and
\* above with an exponent; the axes of the model stay below that.
Format3(v) ==
    IF v < 10 * Scale THEN FloatStr(v)
    ELSE LET q == v \div 10
             r == v % 10
             t == IF r > 5 \/ (r = 5 /\ q % 2 = 1) THEN q + 1 ELSE q
         IN  NatStr(t \div 10) \o <<".", DigitChars[(t % 10) + 1]>>

(***************************************************************************)
(* Inputs                                                                  *)
(***************************************************************************)
\* a cube's wavelengths, and the same in a unit half the size; an axis is a
\* prefix of one of them
AxisA == <<1228, 1234, 1300, 1366, 1432>>

AxisB == <<2456, 2468, 2600, 2732, 2864>>

Cubes ==
    {[w |-> SubSeq(AxisA, 1, n), u |-> "um"] : n \in 1..MaxLen}
        \cup {[w |-> SubSeq(AxisB, 1, n), u |-> "angstrom"] : n \in 1..MaxLen}

Viewers == 1..NumViewers

\* texts typed into the slice text box: every index of the longest axis,
\* one below and one above the range, a padded index, and three texts that
\* int() rejects
SliceTexts ==
    {IntStr(n) : n \in (0 - 1)..MaxLen}
        \cup {<<"0", "1">>, <<"a", "b", "c">>, <<"1", ".", "5">>, <<>>}

\* texts typed into the wavelength text box: an axis value, a value half
\* way between two axis values, an integer text, values of the converted
\* axis, and two texts that float() rejects
WavelengthTexts ==
    {FloatStr(1234), FloatStr(1231), <<"1", "3">>, FloatStr(2468),
     FloatStr(2462), <<"a", "b", "c">>, <<>>}

\* positions of the spectrum viewer's cursor
Positions == {1231, 1234, 1300, 2462, 2468, 2600}

\* the units controller's redshift_z, in hundredths
Redshifts == {0, 100}

Amounts == {0 - MaxLen, 0 - 1, 1, MaxLen}

(***************************************************************************)
(* State                                                                   *)
(***************************************************************************)
VARIABLES
    enabled,             \* set_enabled's value
    subscribed,          \* master_index_update is subscribed on the hub
    wavelengths,         \* self._wavelengths (<<>> for None)
    wavelength_units,    \* self._wavelength_units
    wavelength_format,   \* self._wavelength_format
    slice_slider,        \* the slider widget: minimum, maximum, value
    slice_textbox,       \* text of the slice text box
    wavelength_textbox,  \* text of the wavelength text box
    slice_style,         \* style sheet of the slice text box
    wavelength_style,    \* style sheet of the wavelength text box
    slider_flag,         \* self._slider_flag, the fast-draw flag
    synced_index,        \* the layout's synced_index
    view_slice,          \* per viewer, the slice index last drawn on it
    view_synced,         \* per viewer, its widget's synced flag
    active_cube,         \* the layout's active viewer
    single_viewer_mode,  \* the layout's _single_viewer_mode
    redshift_z,          \* the units controller's redshift, in hundredths
    argsort_pick,        \* which of several equal keys np.argsort puts first
    log,                 \* what the last operation did, in order
    raised,              \* the last operation ended with an exception
    last_op,             \* the last operation and its input
    steps                \* operations so far

vars ==
    <<enabled, subscribed, wavelengths, wavelength_units, wavelength_format,
      slice_slider, slice_textbox, wavelength_textbox, slice_style,
      wavelength_style, slider_flag, synced_index, view_slice, view_synced,
      active_cube, single_viewer_mode, redshift_z, argsort_pick, log, raised,
      last_op, steps>>

RED_BACKGROUND == "background-color: rgba(255, 0, 0, 128);"

\* no slice drawn yet, no position given
NoIndex == 0 - 1

\* the controller's state as one value, with an empty log
Cur ==
    [enabled |-> enabled, subscribed |-> subscribed,
     wavelengths |-> wavelengths, wavelength_units |-> wavelength_units,
     wavelength_format |-> wavelength_format, slice_slider |-> slice_slider,
     slice_textbox |-> slice_textbox,
     wavelength_textbox |-> wavelength_textbox, slice_style |-> slice_style,
     wavelength_style |-> wavelength_style, slider_flag |-> slider_flag,
     synced_index |-> synced_index, view_slice |-> view_slice,
     view_synced |-> view_synced, active_cube |-> active_cube,
     single_viewer_mode |-> single_viewer_mode, redshift_z |-> redshift_z,
     argsort_pick |-> argsort_pick, log |-> <<>>, raised |-> FALSE]

\* an entry of the log: a handler entered, a viewer drawn, a notification
Ev(name, view, index, units) ==
    [ev |-> name, view |-> view, index |-> index, units |-> units]

\* e appended to the log, with the fast-draw flag and the slider's value at
\* that moment
Logged(s, e) ==
    [s EXCEPT !.log = Append(@, [ev |-> e.ev, view |-> e.view,
                                 index |-> e.index, units |-> e.units,
                                 flag |-> s.slider_flag,
                                 value |-> s.slice_slider.value])]

At(a, i) == a[i + 1]

Abs(x) == IF x < 0 THEN 0 - x ELSE x

Format(fmt, v) == IF fmt = "{:.3}" THEN Format3(v) ELSE FloatStr(v)

(***************************************************************************)
(* The slider widget (QSlider) and the hub                                 *)
(***************************************************************************)
RECURSIVE master_index_update(_, _)

\* hub.broadcast(SliceIndexUpdateMessage): delivered to master_index_update
\* once enable has subscribed it
broadcast(s, index) ==
    IF s.subscribed THEN master_index_update(s, index) ELSE s

\* valueChanged -> _on_slider_change
on_slider_change(s) ==
    broadcast(Logged(s, Ev("valueChanged", 0, s.slice_slider.value, "")),
              s.slice_slider.value)

Bound(sl, v) ==
    IF v < sl.minimum THEN sl.minimum
    ELSE IF v > sl.maximum THEN sl.maximum ELSE v

\* QSlider.setValue: the value is bounded to the range; valueChanged is
\* emitted, and its handler run, only when the value changes
setValue(s, v) ==
    LET b  == Bound(s.slice_slider, v)
        s0 == Logged(s, Ev("setValue", 0, v, ""))
    IN  IF b = s.slice_slider.value THEN s0
        ELSE on_slider_change([s0 EXCEPT !.slice_slider.value = b])

\* QSlider.setMaximum: setRange(minimum, max), then the value is bounded
setMaximum(s, m) ==
    LET mx == IF m < s.slice_slider.minimum THEN s.slice_slider.minimum ELSE m
        r  == [s EXCEPT !.slice_slider.maximum = mx]
    IN  IF mx = s.slice_slider.maximum THEN s
        ELSE setValue(r, r.slice_slider.value)

\* QSlider.setMinimum: setRange(min, maximum), then the value is bounded
setMinimum(s, m) ==
    LET mx == IF s.slice_slider.maximum < m THEN m ELSE s.slice_slider.maximum
        r  == [s EXCEPT !.slice_slider.minimum = m, !.slice_slider.maximum = mx]
    IN  IF r.slice_slider = s.slice_slider THEN s
        ELSE setValue(r, r.slice_slider.value)

(***************************************************************************)
(* Nearest wavelength                                                      *)
(***************************************************************************)
\* Keys without abs(): the signed difference
KeysSigned(a, num, den) == [k \in 1..Len(a) |-> a[k] * den - num]

\* abs(self._wavelengths - w) for w = num / den with den > 0, every entry
\* multiplied by den
Keys(a, num, den) == [k \in 1..Len(a) |-> Abs(a[k] * den - num)]

SetMin(S) == CHOOSE x \in S : \A y \in S : x <= y

SetMax(S) == CHOOSE x \in S : \A y \in S : x >= y

\* np.argsort(keys)[-1]: an index of a greatest key
ArgsortLast(keys, pick) ==
    LET most == {k \in DOMAIN keys : \A j \in DOMAIN keys : keys[k] >= keys[j]}
    IN  (IF pick = "lowest" THEN SetMin(most) ELSE SetMax(most)) - 1

\* np.argsort(keys)[0], 0-based: an index of a least key.  The default
\* sort is numpy's quicksort, which is not stable: which of several equal
\* least keys comes first is the build's choice, argsort_pick.
ArgsortFirst(keys, pick) ==
    LET least == {k \in DOMAIN keys : \A j \in DOMAIN keys : keys[k] <= keys[j]}
    IN  (IF pick = "lowest" THEN SetMin(least) ELSE SetMax(least)) - 1

(***************************************************************************)
(* The controller's methods                                                *)
(***************************************************************************)
\* view._widget.update_slice_index(index): a full redraw
update_slice_index(s, v, index) ==
    Logged([s EXCEPT !.view_slice[v] = index],
           Ev("update_slice_index", v, index, ""))

\* view._widget.fast_draw_slice_at_index(index): a fast draw
fast_draw_slice_at_index(s, v, index) ==
    Logged([s EXCEPT !.view_slice[v] = index],
           Ev("fast_draw_slice_at_index", v, index, ""))

RECURSIVE apply_to_synced_full(_, _, _)
\* the loop of apply_to_viewers without the test of the fast-draw flag
apply_to_synced_full(s, k, index) ==
    IF k > NumViewers THEN s
    ELSE apply_to_synced_full(
             IF s.view_synced[k] THEN update_slice_index(s, k, index) ELSE s,
             k + 1, index)

RECURSIVE apply_to_synced(_, _, _)
\* the loop over cube_views of apply_to_viewers, from view k on
apply_to_synced(s, k, index) ==
    IF k > NumViewers THEN s
    ELSE apply_to_synced(
             IF s.view_synced[k]
             THEN IF s.slider_flag THEN fast_draw_slice_at_index(s, k, index)
                  ELSE update_slice_index(s, k, index)
             ELSE s,
             k + 1, index)

\* apply_to_viewers storing the synced index on both branches
apply_to_viewers_stores_index(s, index) ==
    LET r == IF s.view_synced[s.active_cube] /\ ~s.single_viewer_mode
             THEN apply_to_synced(s, 1, index)
             ELSE IF s.slider_flag
                  THEN fast_draw_slice_at_index(s, s.active_cube, index)
                  ELSE update_slice_index(s, s.active_cube, index)
    IN  Logged([r EXCEPT !.synced_index = index],
               Ev("changed_dispersion_position", 0, index, ""))

\* apply_to_viewers without the test of single-viewer mode
apply_to_viewers_any_mode(s, index) ==
    LET r == IF s.view_synced[s.active_cube]
             THEN [apply_to_synced(s, 1, index) EXCEPT !.synced_index = index]
             ELSE IF s.slider_flag
                  THEN fast_draw_slice_at_index(s, s.active_cube, index)
                  ELSE update_slice_index(s, s.active_cube, index)
    IN  Logged(r, Ev("changed_dispersion_position", 0, index, ""))

apply_to_viewers(s, index) ==
    LET r == IF s.view_synced[s.active_cube] /\ ~s.single_viewer_mode
             THEN [apply_to_synced(s, 1, index) EXCEPT !.synced_index = index]
             ELSE IF s.slider_flag
                  THEN fast_draw_slice_at_index(s, s.active_cube, index)
                  ELSE update_slice_index(s, s.active_cube, index)
    IN  Logged(r, Ev("changed_dispersion_position", 0, index, ""))

\* master_index_update leaving alone a text it cannot read, instead of
\* taking it for index -1
master_index_update_skips_unread(s, index) ==
    LET s0 == Logged(s, Ev("master_index_update", 0, index, ""))
        tb == ParseInt(s0.slice_textbox)
        s1 == IF tb.ok /\ tb.val # index
              THEN [s0 EXCEPT !.slice_textbox = IntStr(index)]
              ELSE s0
        wl == ParseFloat(s1.wavelength_textbox)
        s2 == IF wl.ok /\ index # ArgsortFirst(Keys(s1.wavelengths, wl.val, 1),
                                               s1.argsort_pick)
              THEN [s1 EXCEPT !.wavelength_textbox =
                                  FloatStr(At(s1.wavelengths, index))]
              ELSE s1
        s3 == IF s2.slice_slider.value # index THEN setValue(s2, index) ELSE s2
    IN  apply_to_viewers(s3, index)

\* master_index_update setting the slider without comparing it first
master_index_update_always_sets(s, index) ==
    LET s0 == Logged(s, Ev("master_index_update", 0, index, ""))
        tb == ParseInt(s0.slice_textbox)
        tb_index == IF tb.ok THEN tb.val ELSE 0 - 1
        s1 == IF tb_index # index
              THEN [s0 EXCEPT !.slice_textbox = IntStr(index)]
              ELSE s0
        wl == ParseFloat(s1.wavelength_textbox)
        wv_index == IF wl.ok
                    THEN ArgsortFirst(Keys(s1.wavelengths, wl.val, 1),
                                      s1.argsort_pick)
                    ELSE 0 - 1
        s2 == IF index # wv_index
              THEN [s1 EXCEPT !.wavelength_textbox =
                                  FloatStr(At(s1.wavelengths, index))]
              ELSE s1
    IN  apply_to_viewers(setValue(s2, index), index)

master_index_update(s, index) ==
    LET s0 == Logged(s, Ev("master_index_update", 0, index, ""))
        tb == ParseInt(s0.slice_textbox)
        tb_index == IF tb.ok THEN tb.val ELSE 0 - 1
        s1 == IF tb_index # index
              THEN [s0 EXCEPT !.slice_textbox = IntStr(index)]
              ELSE s0
        wl == ParseFloat(s1.wavelength_textbox)
        wv_index == IF wl.ok
                    THEN ArgsortFirst(Keys(s1.wavelengths, wl.val, 1),
                                      s1.argsort_pick)
                    ELSE 0 - 1
        s2 == IF index # wv_index
              THEN [s1 EXCEPT !.wavelength_textbox =
                                  FloatStr(At(s1.wavelengths, index))]
              ELSE s1
        s3 == IF s2.slice_slider.value # index THEN setValue(s2, index) ELSE s2
    IN  apply_to_viewers(s3, index)

on_slider_pressed(s) == [s EXCEPT !.slider_flag = TRUE]

RECURSIVE release_synced(_, _, _)
\* the loop over cube_views of _on_slider_released, from view k on
release_synced(s, k, index) ==
    IF k > NumViewers THEN s
    ELSE release_synced(
             IF s.view_synced[k] THEN update_slice_index(s, k, index) ELSE s,
             k + 1, index)

\* _on_slider_released without the reset of the flag, drawing as
\* apply_to_viewers does
on_slider_released_flag_kept(s) ==
    LET index == s.slice_slider.value
        r == IF s.view_synced[s.active_cube] /\ ~s.single_viewer_mode
             THEN [apply_to_synced(s, 1, index) EXCEPT !.synced_index = index]
             ELSE IF s.slider_flag
                  THEN fast_draw_slice_at_index(s, s.active_cube, index)
                  ELSE update_slice_index(s, s.active_cube, index)
    IN  Logged(r, Ev("changed_dispersion_position", 0, index, ""))

on_slider_released(s) ==
    LET s1 == [s EXCEPT !.slider_flag = FALSE]
        index == s1.slice_slider.value
        r == IF s1.view_synced[s1.active_cube] /\ ~s1.single_viewer_mode
             THEN [release_synced(s1, 1, index) EXCEPT !.synced_index = index]
             ELSE update_slice_index(s1, s1.active_cube, index)
    IN  Logged(r, Ev("changed_dispersion_position", 0, index, ""))

\* _on_text_slice_change falling back to the first slice on a text that is
\* no number, as its comment says
on_text_slice_change_first_slice(s) ==
    LET p == ParseInt(s.slice_textbox)
        i0 == IF p.ok THEN p.val ELSE 0
        i1 == IF i0 < 0 THEN 0 ELSE i0
        i2 == IF i1 > Len(s.wavelengths) - 1 THEN Len(s.wavelengths) - 1 ELSE i1
    IN  setValue([s EXCEPT !.slice_style =
                               IF p.ok THEN "" ELSE RED_BACKGROUND], i2)

\* _on_text_slice_change without the test against the last slice
on_text_slice_change_no_upper(s) ==
    LET p == ParseInt(s.slice_textbox)
    IN  IF ~p.ok THEN [s EXCEPT !.slice_style = RED_BACKGROUND]
        ELSE setValue([s EXCEPT !.slice_style = ""],
                      IF p.val < 0 THEN 0 ELSE p.val)

\* the text is s.slice_textbox.  Line 275 compares an int with a str, which
\* are never equal, so it never returns there.
on_text_slice_change(s) ==
    LET p == ParseInt(s.slice_textbox)
    IN  IF ~p.ok THEN [s EXCEPT !.slice_style = RED_BACKGROUND]
        ELSE LET s1 == [s EXCEPT !.slice_style = ""]
                 i1 == IF p.val < 0 THEN 0 ELSE p.val
                 i2 == IF i1 > Len(s.wavelengths) - 1
                       THEN Len(s.wavelengths) - 1
                       ELSE i1
             IN  setValue(s1, i2)

\* pos is NoIndex for None, else a wavelength
on_text_wavelength_change(s, pos) ==
    LET p == IF pos # NoIndex THEN [ok |-> TRUE, val |-> pos]
             ELSE ParseFloat(s.wavelength_textbox)
    IN  IF ~p.ok THEN [s EXCEPT !.wavelength_style = RED_BACKGROUND]
        ELSE setValue([s EXCEPT !.wavelength_style = ""],
                      ArgsortFirst(Keys(s.wavelengths, p.val, 1),
                                   s.argsort_pick))

\* specviz_wavelength_slider_change clearing the flag whoever set it
specviz_change_always_deactivates(s, pos) ==
    LET s1 == [s EXCEPT !.slider_flag = TRUE]
        pos1 == IF s.redshift_z # 0
                THEN At(s.wavelengths,
                        ArgsortFirst(Keys(s.wavelengths, pos * Scale,
                                          Scale + s.redshift_z),
                                     s.argsort_pick))
                ELSE pos
    IN  [on_text_wavelength_change(s1, pos1) EXCEPT !.slider_flag = FALSE]

\* specviz_wavelength_slider_change without the redshift correction
specviz_change_no_redshift(s, pos) ==
    LET deactivate_flag == ~s.slider_flag
        s2 == on_text_wavelength_change([s EXCEPT !.slider_flag = TRUE], pos)
    IN  IF deactivate_flag THEN [s2 EXCEPT !.slider_flag = FALSE] ELSE s2

\* the rest wavelength is pos / (1 + z) = pos * Scale / (Scale + redshift_z)
specviz_wavelength_slider_change(s, pos) ==
    LET deactivate_flag == ~s.slider_flag
        s1 == [s EXCEPT !.slider_flag = TRUE]
        pos1 == IF s.redshift_z # 0
                THEN At(s.wavelengths,
                        ArgsortFirst(Keys(s.wavelengths, pos * Scale,
                                          Scale + s.redshift_z),
                                     s.argsort_pick))
                ELSE pos
        s2 == on_text_wavelength_change(s1, pos1)
    IN  IF deactivate_flag THEN [s2 EXCEPT !.slider_flag = FALSE] ELSE s2

\* self._wavelengths[self._cv_layout.synced_index] raises IndexError when
\* the synced index is past the new axis; what was done before stays done
set_wavelengths(s, new_wavelengths, new_units) ==
    LET s1 == [s EXCEPT !.wavelength_units = new_units,
                        !.wavelength_format = "{:.3}",
                        !.wavelengths = new_wavelengths]
        s2 == setMaximum(s1, Len(new_wavelengths) - 1)
    IN  IF s2.synced_index >= Len(s2.wavelengths)
        THEN [s2 EXCEPT !.raised = TRUE]
        ELSE Logged([s2 EXCEPT !.wavelength_textbox =
                                   Format(s2.wavelength_format,
                                          At(s2.wavelengths, s2.synced_index))],
                    Ev("changed_units", 0, 0, new_units))

enable(s, new_wavelengths, units) ==
    LET s1 == [s EXCEPT !.enabled = TRUE, !.subscribed = TRUE]
        s2 == setMinimum(s1, 0)
        s3 == [s2 EXCEPT !.wavelength_units = units,
                         !.wavelength_format = "{:.3}",
                         !.wavelengths = new_wavelengths]
        s4 == setMaximum(s3, Len(new_wavelengths) - 1)
        middle_index == Len(new_wavelengths) \div 2
        s5 == setValue(s4, middle_index)
    IN  [s5 EXCEPT !.wavelength_textbox =
                       Format(s5.wavelength_format,
                              At(s5.wavelengths, middle_index)),
                   !.synced_index = middle_index]

change_slider_value(s, amount) ==
    LET new_index == s.slice_slider.value + amount
    IN  Logged(setValue(s, new_index),
               Ev("changed_dispersion_position", 0, new_index, ""))

(***************************************************************************)
(* Initial state and operations                                            *)
(***************************************************************************)
\* the state __init__ leaves: the widgets disabled, no axis, the slider
\* with QSlider's range 0..99 and value 0, every viewer synced
Init ==
    /\ enabled = FALSE
    /\ subscribed = FALSE
    /\ wavelengths = <<>>
    /\ wavelength_units = "None"
    /\ wavelength_format = "{}"
    /\ slice_slider = [minimum |-> 0, maximum |-> 99, value |-> 0]
    /\ slice_textbox = <<>>
    /\ wavelength_textbox = <<>>
    /\ slice_style = ""
    /\ wavelength_style = ""
    /\ slider_flag = FALSE
    /\ synced_index = 0
    /\ view_slice = [v \in Viewers |-> NoIndex]
    /\ view_synced = [v \in Viewers |-> TRUE]
    /\ active_cube = 1
    /\ single_viewer_mode = FALSE
    /\ redshift_z = 0
    /\ argsort_pick \in {"lowest", "highest"}
    /\ log = <<>>
    /\ raised = FALSE
    /\ last_op = [op |-> "init", arg |-> 0, text |-> <<>>, axis |-> <<>>]
    /\ steps = 0

\* the state s after operation op with input arg, text or axis
Done(s, op, arg, text, axis) ==
    /\ steps < MaxSteps
    /\ steps' = steps + 1
    /\ last_op' = [op |-> op, arg |-> arg, text |-> text, axis |-> axis]
    /\ enabled' = s.enabled
    /\ subscribed' = s.subscribed
    /\ wavelengths' = s.wavelengths
    /\ wavelength_units' = s.wavelength_units
    /\ wavelength_format' = s.wavelength_format
    /\ slice_slider' = s.slice_slider
    /\ slice_textbox' = s.slice_textbox
    /\ wavelength_textbox' = s.wavelength_textbox
    /\ slice_style' = s.slice_style
    /\ wavelength_style' = s.wavelength_style
    /\ slider_flag' = s.slider_flag
    /\ synced_index' = s.synced_index
    /\ view_slice' = s.view_slice
    /\ view_synced' = s.view_synced
    /\ active_cube' = s.active_cube
    /\ single_viewer_mode' = s.single_viewer_mode
    /\ redshift_z' = s.redshift_z
    /\ argsort_pick' = s.argsort_pick
    /\ log' = s.log
    /\ raised' = s.raised

Enable ==
    /\ steps < MaxSteps
    /\ \E c \in Cubes : Done(enable(Cur, c.w, c.u), "enable", 0, <<>>, c.w)

SetWavelengths ==
    /\ enabled
    /\ \E c \in Cubes :
           Done(set_wavelengths(Cur, c.w, c.u), "set_wavelengths", 0, <<>>, c.w)

\* the user moves the slider's handle to another value of its range
SliderMoved ==
    /\ enabled
    /\ \E v \in slice_slider.minimum..slice_slider.maximum :
           /\ v # slice_slider.value
           /\ Done(setValue(Cur, v), "slider_moved", v, <<>>, <<>>)

SliderPressed ==
    /\ enabled
    /\ Done(on_slider_pressed(Cur), "slider_pressed", 0, <<>>, <<>>)

\* the slider is released, or the spectrum viewer says
\* "finished_position_change"
SliderReleased ==
    /\ enabled
    /\ Done(on_slider_released(Cur), "slider_released", 0, <<>>, <<>>)

\* the user types t into the slice text box and presses return
TextSliceReturn ==
    /\ enabled
    /\ \E t \in SliceTexts :
           Done(on_text_slice_change([Cur EXCEPT !.slice_textbox = t]),
                "text_slice", 0, t, <<>>)

\* the user types t into the wavelength text box and presses return
TextWavelengthReturn ==
    /\ enabled
    /\ \E t \in WavelengthTexts :
           Done(on_text_wavelength_change(
                    [Cur EXCEPT !.wavelength_textbox = t], NoIndex),
                "text_wavelength", 0, t, <<>>)

ChangeSliderValue ==
    /\ enabled
    /\ \E amount \in Amounts :
           Done(change_slider_value(Cur, amount), "change_slider_value",
                amount, <<>>, <<>>)

\* another component broadcasts a SliceIndexUpdateMessage for a slice of
\* the cube
BusIndexUpdate ==
    /\ enabled
    /\ \E i \in 0..(Len(wavelengths) - 1) :
           Done(broadcast(Cur, i), "bus_index_update", i, <<>>, <<>>)

\* the spectrum viewer says "change_dispersion_position"
SpecvizCursor ==
    /\ enabled
    /\ \E pos \in Positions :
           Done(specviz_wavelength_slider_change(Cur, pos), "specviz_cursor",
                pos, <<>>, <<>>)

\* the layout: another viewer becomes the active one
SetActiveCube ==
    /\ enabled
    /\ \E v \in Viewers \ {active_cube} :
           Done([Cur EXCEPT !.active_cube = v], "set_active_cube", v, <<>>, <<>>)

\* the layout: a viewer's synced box is ticked or cleared
ToggleSynced ==
    /\ enabled
    /\ \E v \in Viewers :
           Done([Cur EXCEPT !.view_synced[v] = ~@], "toggle_synced", v, <<>>,
                <<>>)

\* the layout: single-viewer mode is entered or left
ToggleSingleViewerMode ==
    /\ enabled
    /\ Done([Cur EXCEPT !.single_viewer_mode = ~@], "toggle_single_viewer",
            0, <<>>, <<>>)

\* the units controller: a redshift is set
SetRedshift ==
    /\ enabled
    /\ \E z \in Redshifts \ {redshift_z} :
           Done([Cur EXCEPT !.redshift_z = z], "set_redshift", z, <<>>, <<>>)

Next ==
    \/ Enable
    \/ SetWavelengths
    \/ SliderMoved
    \/ SliderPressed
    \/ SliderReleased
    \/ TextSliceReturn
    \/ TextWavelengthReturn
    \/ ChangeSliderValue
    \/ BusIndexUpdate
    \/ SpecvizCursor
    \/ SetActiveCube
    \/ ToggleSynced
    \/ ToggleSingleViewerMode
    \/ SetRedshift

Spec == Init /\ [][Next]_vars

(***************************************************************************)
(* Properties                                                              *)
(***************************************************************************)
DrawEvents == {"update_slice_index", "fast_draw_slice_at_index"}

\* the places of the log l that hold an event named in names
Places(l, names) == {k \in 1..Len(l) : l[k].ev \in names}

\* the viewers a redraw reaches: every synced one when the active viewer is
\* synced and single-viewer mode is off, else the active one
Affected(synced, active, single) ==
    IF synced[active] /\ ~single THEN {v \in Viewers : synced[v]} ELSE {active}

\* the indices of axis a nearest to wavelength w
NearestIndices(a, w) ==
    {i \in 0..(Len(a) - 1) :
        \A j \in 0..(Len(a) - 1) : Abs(At(a, i) - w) <= Abs(At(a, j) - w)}

\* C1: once enabled, the layout's synced index is an index of the current
\* wavelength axis, in every state.
C1_SyncedIndexValid ==
    enabled => synced_index \in 0..(Len(wavelengths) - 1)

\* C2: after the slider is moved to i, the slice text box holds str(i) and
\* the wavelength text box holds the configured format applied to axis[i].
C2_SliderSetsTextBoxes ==
    last_op.op = "slider_moved" =>
        /\ slice_textbox = IntStr(slice_slider.value)
        /\ wavelength_textbox =
               Format(wavelength_format, At(wavelengths, slice_slider.value))

C4_SliceTextClamped ==
    (last_op.op = "text_slice" /\ ParseInt(last_op.text).ok) =>
        LET n    == ParseInt(last_op.text).val
            last == Len(wavelengths) - 1
            want == IF n < 0 THEN 0 ELSE IF n > last THEN last ELSE n
            sets == Places(log, {"setValue"})
        IN  /\ Cardinality(sets) = 1
            /\ \A k \in sets : log[k].index = want
            /\ slice_slider.value = want

\* a slice number past the axis moved the slider to the last slice
C4_Witness ==
    /\ last_op.op = "text_slice"
    /\ ParseInt(last_op.text).ok
    /\ ParseInt(last_op.text).val > Len(wavelengths) - 1
    /\ slice_slider.value = Len(wavelengths) - 1
    /\ Places(log, {"valueChanged"}) # {}

\* C5: apply_to_viewers(i), as run for an index-update message or a move of
\* the slider: when the active viewer is synced and single-viewer mode is
\* off, the viewers drawn are exactly the synced ones; in single-viewer
\* mode, or when the active viewer is not synced, exactly the active one,
\* and every other viewer keeps its slice.  Every viewer drawn shows i.
C5_FanOut ==
    [][last_op'.op \in {"bus_index_update", "slider_moved"} =>
          LET i     == last_op'.arg
              drawn == {log'[k].view : k \in Places(log', DrawEvents)}
          IN  /\ drawn = Affected(view_synced, active_cube, single_viewer_mode)
              /\ \A v \in drawn : view_slice'[v] = i
              /\ \A v \in Viewers \ drawn : view_slice'[v] = view_slice[v]
              /\ \A k \in Places(log', DrawEvents) : log'[k].index = i]_vars

\* in single-viewer mode a message drew the active viewer alone, and a
\* synced viewer beside it kept another slice
C5_Witness ==
    /\ last_op.op = "bus_index_update"
    /\ single_viewer_mode
    /\ view_slice[active_cube] = last_op.arg
    /\ \E v \in Viewers \ {active_cube} :
           /\ view_synced[v]
           /\ view_slice[v] # last_op.arg
           /\ view_slice[v] # NoIndex

\* the last operation resolved a wavelength through
\* _on_text_wavelength_change: a text float() reads, or a cursor position
\* with no redshift
Resolved ==
    \/ last_op.op = "text_wavelength" /\ ParseFloat(last_op.text).ok
    \/ last_op.op = "specviz_cursor" /\ redshift_z = 0

\* the wavelength it resolved
Target ==
    IF last_op.op = "text_wavelength" THEN ParseFloat(last_op.text).val
    ELSE last_op.arg

C7_ExactResolves ==
    /\ Resolved =>
           \A i \in 0..(Len(wavelengths) - 1) :
               At(wavelengths, i) = Target => slice_slider.value = i
    /\ enabled =>
           \A i \in 0..(Len(wavelengths) - 1) :
               /\ on_text_wavelength_change(Cur, At(wavelengths, i))
                      .slice_slider.value = i
               /\ on_text_wavelength_change(
                      [Cur EXCEPT !.wavelength_textbox =
                                      FloatStr(At(wavelengths, i))],
                      NoIndex).slice_slider.value = i

\* the text of an axis value moved the slider to that value's slice
C7_Witness ==
    /\ last_op.op = "text_wavelength"
    /\ ParseFloat(last_op.text).ok
    /\ ParseFloat(last_op.text).val = At(wavelengths, slice_slider.value)
    /\ Places(log, {"valueChanged"}) # {}

\* C8: after the release handler the fast-draw flag is false, every
\* affected viewer got exactly one full redraw at the slider's value, no
\* other viewer was drawn, and one "position changed" notification was
\* emitted, with the slider's value.
C8_ReleaseRedraws ==
    last_op.op = "slider_released" =>
        LET aff  == Affected(view_synced, active_cube, single_viewer_mode)
            full == Places(log, {"update_slice_index"})
            pos  == Places(log, {"changed_dispersion_position"})
        IN  /\ ~slider_flag
            /\ Places(log, {"fast_draw_slice_at_index"}) = {}
            /\ {log[k].view : k \in full} = aff
            /\ Cardinality(full) = Cardinality(aff)
            /\ \A k \in full : log[k].index = slice_slider.value
            /\ \A v \in aff : view_slice[v] = slice_slider.value
            /\ Cardinality(pos) = 1
            /\ \A k \in pos : log[k].index = slice_slider.value

\* a release with an unsynced active viewer beside a synced one gave that
\* viewer alone its full redraw
C8_Witness ==
    /\ last_op.op = "slider_released"
    /\ ~view_synced[active_cube]
    /\ \E v \in Viewers : view_synced[v]
    /\ Cardinality(Places(log, {"update_slice_index"})) = 1
    /\ ~slider_flag

\* C9: the handler of the spectrum viewer's cursor leaves the fast-draw
\* flag as it found it and makes no full redraw, so a run of cursor events
\* makes none; the release handler that ends the run makes the full redraw.
C9_CursorKeepsFlag ==
    [][/\ last_op'.op = "specviz_cursor" =>
              /\ slider_flag' = slider_flag
              /\ Places(log', {"update_slice_index"}) = {}
       /\ last_op'.op = "slider_released" =>
              Places(log', {"update_slice_index"}) # {}]_vars

\* a cursor event during a drag of the slider drew fast and left the flag
\* set
C9_Witness ==
    /\ last_op.op = "specviz_cursor"
    /\ slider_flag
    /\ Places(log, {"fast_draw_slice_at_index"}) # {}

\* C10: with a redshift z # 0, a cursor event at the observed position
\* r * (1 + z) leaves the slider where resolving r directly would; with
\* z = 0 it leaves it where resolving the position itself would.
C10_RedshiftRoundTrip ==
    [][last_op'.op = "specviz_cursor" =>
          LET pos == last_op'.arg
              num == pos * Scale
              den == Scale + redshift_z
          IN  IF redshift_z # 0
              THEN num % den = 0 =>
                       slice_slider'.value =
                           on_text_wavelength_change(Cur, num \div den)
                               .slice_slider.value
              ELSE slice_slider'.value =
                       on_text_wavelength_change(Cur, pos)
                           .slice_slider.value]_vars

\* with z = 1 the observed position 26.0 moved the slider to the slice of
\* the rest wavelength 13.0
C10_Witness ==
    /\ last_op.op = "specviz_cursor"
    /\ redshift_z # 0
    /\ (last_op.arg * Scale) % (Scale + redshift_z) = 0
    /\ At(wavelengths, slice_slider.value) =
           (last_op.arg * Scale) \div (Scale + redshift_z)
    /\ Places(log, {"valueChanged"}) # {}

\* C11: after enable the slider's range is [0, len(axis) - 1], the slider
\* and the synced index are at len(axis) // 2, the slice text box shows that
\* index and the wavelength text box the formatted wavelength of that slice.
C11_EnableMidpoint ==
    last_op.op = "enable" =>
        LET mid == Len(wavelengths) \div 2
        IN  /\ wavelengths = last_op.axis
            /\ slice_slider.minimum = 0
            /\ slice_slider.maximum = Len(wavelengths) - 1
            /\ slice_slider.value = mid
            /\ synced_index = mid
            /\ ParseInt(slice_textbox).ok
            /\ ParseInt(slice_textbox).val = mid
            /\ wavelength_textbox =
                   Format(wavelength_format, At(wavelengths, mid))

\* C12: after set_wavelengths the axis is the new one, the slider's maximum
\* is len(axis) - 1, the wavelength text box shows the formatted wavelength
\* of the slice the slider is at, and exactly one "units changed"
\* notification was emitted, with the new units.
C12_SetWavelengths ==
    last_op.op = "set_wavelengths" =>
        LET units == Places(log, {"changed_units"})
        IN  /\ wavelengths = last_op.axis
            /\ slice_slider.maximum = Len(wavelengths) - 1
            /\ wavelength_textbox =
                   Format(wavelength_format,
                          At(wavelengths, slice_slider.value))
            /\ Cardinality(units) = 1
            /\ \A k \in units :
                   \E c \in Cubes : c.w = last_op.axis /\ c.u = log[k].units

\* C13: after an index-update message with an index i of the axis the
\* slider is at i, the slice text box reads as i, the wavelength text box
\* reads as a wavelength that resolves to i and is nowhere nearer another
\* slice, every affected viewer shows i and "position changed" was emitted
\* with i.
C13_BusReconciles ==
    last_op.op = "bus_index_update" =>
        LET i  == last_op.arg
            wl == ParseFloat(wavelength_textbox)
        IN  /\ slice_slider.value = i
            /\ ParseInt(slice_textbox).ok
            /\ ParseInt(slice_textbox).val = i
            /\ wl.ok
            /\ i \in NearestIndices(wavelengths, wl.val)
            /\ ArgsortFirst(Keys(wavelengths, wl.val, 1), argsort_pick) = i
            /\ \A v \in Affected(view_synced, active_cube, single_viewer_mode) :
                   view_slice[v] = i
            /\ \E k \in Places(log, {"changed_dispersion_position"}) :
                   log[k].index = i

\* a message moved the slider and replaced a slice text that int() does
\* not read
C13_Witness ==
    /\ last_op.op = "bus_index_update"
    /\ slice_style = RED_BACKGROUND
    /\ slice_textbox = IntStr(last_op.arg)
    /\ Places(log, {"valueChanged"}) # {}

\* the last operation was a stimulus handled to its end: a move of the
\* slider, a text its handler reads, change_slider_value or a cursor event
Stimulus ==
    \/ last_op.op \in {"slider_moved", "change_slider_value", "specviz_cursor"}
    \/ last_op.op = "text_slice" /\ ParseInt(last_op.text).ok
    \/ last_op.op = "text_wavelength" /\ ParseFloat(last_op.text).ok

\* C14: after a stimulus the slice text box reads as the slider's value,
\* and, when the active viewer is synced and single-viewer mode is off, the
\* synced index is the slider's value and every synced viewer shows it.
C14_OneCanonicalIndex ==
    Stimulus =>
        /\ ParseInt(slice_textbox).ok
        /\ ParseInt(slice_textbox).val = slice_slider.value
        /\ (view_synced[active_cube] /\ ~single_viewer_mode) =>
               /\ synced_index = slice_slider.value
               /\ \A v \in Viewers :
                      view_synced[v] => view_slice[v] = slice_slider.value

\* C15: when the active viewer is not synced or single-viewer mode is on,
\* apply_to_viewers(i), as run for an index-update message or a move of the
\* slider, leaves the synced index and the slice of every viewer but the
\* active one as they were, synced viewers included.
C15_UnsyncedFrame ==
    [][(/\ last_op'.op \in {"bus_index_update", "slider_moved"}
        /\ ~(view_synced[active_cube] /\ ~single_viewer_mode)) =>
           /\ synced_index' = synced_index
           /\ \A v \in Viewers \ {active_cube} : view_slice'[v] = view_slice[v]
           /\ view_slice'[active_cube] = last_op'.arg]_vars

\* with the active viewer unsynced a message drew it at another slice than
\* the synced index, which a synced viewer still shows
C15_Witness ==
    /\ last_op.op = "bus_index_update"
    /\ ~view_synced[active_cube]
    /\ ~single_viewer_mode
    /\ view_slice[active_cube] = last_op.arg
    /\ synced_index # last_op.arg
    /\ \E v \in Viewers : view_synced[v] /\ view_slice[v] = synced_index

\* C16: a viewer is drawn fast exactly when the fast-draw flag is set at
\* that moment; a move of the slider while the flag is set (between press
\* and release) draws fast and makes no full redraw; a move or a message
\* while it is clear makes full redraws only.
C16_FastIffFlag ==
    /\ \A k \in Places(log, DrawEvents) :
           (log[k].ev = "fast_draw_slice_at_index") <=> log[k].flag
    /\ (last_op.op = "slider_moved" /\ slider_flag) =>
           /\ Places(log, {"update_slice_index"}) = {}
           /\ Places(log, {"fast_draw_slice_at_index"}) # {}
    /\ (last_op.op \in {"slider_moved", "bus_index_update"} /\ ~slider_flag) =>
           /\ Places(log, {"fast_draw_slice_at_index"}) = {}
           /\ Places(log, {"update_slice_index"}) # {}

\* a move of the pressed slider drew every synced viewer fast
C16_Witness ==
    /\ last_op.op = "slider_moved"
    /\ slider_flag
    /\ Cardinality(Places(log, {"fast_draw_slice_at_index"})) = NumViewers
    /\ Places(log, {"update_slice_index"}) = {}

\* C17: one stimulus or one index-update message runs a bounded chain of
\* handlers: the slider's value changes at most once and is set at most
\* once, master_index_update runs once per change of the value, and once
\* more for the message itself; the master_index_update nested in a
\* message's setValue does not set the slider again.
C17_ChainBounded ==
    (Stimulus \/ last_op.op = "bus_index_update") =>
        LET changes == Cardinality(Places(log, {"valueChanged"}))
            sets    == Cardinality(Places(log, {"setValue"}))
            updates == Cardinality(Places(log, {"master_index_update"}))
        IN  /\ changes <= 1
            /\ sets <= 1
            /\ changes <= sets
            /\ updates = IF last_op.op = "bus_index_update"
                         THEN 1 + changes
                         ELSE changes

\* a message for another slice than the slider's ran master_index_update
\* twice, the second time nested in the first one's setValue
C17_Witness ==
    /\ last_op.op = "bus_index_update"
    /\ Cardinality(Places(log, {"master_index_update"})) = 2
    /\ Cardinality(Places(log, {"setValue"})) = 1

\* C18: every "position changed" notification carries a slice index of the
\* axis, equal to the slider's value when it is emitted.
C18_PositionIsSliderValue ==
    \A k \in Places(log, {"changed_dispersion_position"}) :
        /\ log[k].index \in 0..(Len(wavelengths) - 1)
        /\ log[k].index = log[k].value

\* C19: a text box has the error style only while its text cannot be read:
\* the slice box by int(), the wavelength box by float().
C19_ErrorStyleOnlyOnBadText ==
    /\ slice_style = RED_BACKGROUND => ~ParseInt(slice_textbox).ok
    /\ wavelength_style = RED_BACKGROUND => ~ParseFloat(wavelength_textbox).ok

====
